---- MODULE Spec2Model ----
(***************************************************************************)
(* Room/session coordination engine of the bingo server (socket.io).       *)
(* One action per socket event handler and per timer callback; every       *)
(* handler runs to completion (single-threaded event loop).                *)
(***************************************************************************)
EXTENDS Integers, Sequences, FiniteSets, TLC

(***************************************************************************)
(* Bounds of the model.                                                    *)
(***************************************************************************)
\* The handlers themselves are unbounded; the bounds limit which events the
\* clients send (see the next-state relations at the end).
\* longest players list a join_room is sent to
MaxPlayers == 2
\* largest score a declare_win is sent at
MaxScore == 2
\* most declare_win advance timers outstanding when a declare_win is sent
MaxWinTimers == 2
\* most caller timers outstanding whose room object has left the registry
MaxDetached == 1

\* socket ids and room codes
Conns == {"c1", "c2"}
Codes == {"R1"}

(***************************************************************************)
(* Settings payloads the host may send.  entries is the raw text, one      *)
(* character per element; totalRounds = 0 stands for an absent (falsy)     *)
(* totalRounds.                                                            *)
(***************************************************************************)
SettingNames == {"SetA", "SetB"}
\* further payloads, sent only where the dealer is checked on its own
DealNames == {"SetC", "SetD", "SetE", "SetF"}
AllSettingNames == SettingNames \cup DealNames

SettingsOf(s) ==
    CASE s = "SetA" -> [size |-> 1, entries |-> <<"A", ",", "B", ",", " ", "A", ",">>,
                        totalRounds |-> 2]
      [] s = "SetB" -> [size |-> 2, entries |-> <<"B">>, totalRounds |-> 0]
      \* "A,B,A,C": four items, one text twice, for a 2x2 board
      [] s = "SetC" -> [size |-> 2, entries |-> <<"A", ",", "B", ",", "A", ",", "C">>,
                        totalRounds |-> 0]
      \* "A, B,C ,D": four different items for a 2x2 board
      [] s = "SetD" -> [size |-> 2,
                        entries |-> <<"A", ",", " ", "B", ",", "C", " ", ",", "D">>,
                        totalRounds |-> 0]
      \* "A,B,C": three items for a 1x1 board
      [] s = "SetE" -> [size |-> 1, entries |-> <<"A", ",", "B", ",", "C">>,
                        totalRounds |-> 0]
      \* " ,": no item at all
      [] s = "SetF" -> [size |-> 1, entries |-> <<" ", ",">>, totalRounds |-> 0]

(***************************************************************************)
(* entries.split(',').map(e => e.trim()).filter(e => e.length > 0)         *)
(***************************************************************************)
RECURSIVE split(_, _)
split(text, acc) ==
    IF text = <<>> THEN <<acc>>
    ELSE IF Head(text) = "," THEN <<acc>> \o split(Tail(text), <<>>)
    ELSE split(Tail(text), Append(acc, Head(text)))

RECURSIVE trimStart(_)
trimStart(e) ==
    IF e # <<>> /\ Head(e) = " " THEN trimStart(Tail(e)) ELSE e

RECURSIVE trimEnd(_)
trimEnd(e) ==
    IF e # <<>> /\ e[Len(e)] = " " THEN trimEnd(SubSeq(e, 1, Len(e) - 1)) ELSE e

trim(e) == trimEnd(trimStart(e))

parseEntries(text) ==
    LET pieces  == split(text, <<>>)
        trimmed == [i \in 1..Len(pieces) |-> trim(pieces[i])]
    IN  SelectSeq(trimmed, LAMBDA e : Len(e) > 0)

includes(seq, x) == \E i \in 1..Len(seq) : seq[i] = x

(***************************************************************************)
(* shuffleArray: Fisher-Yates on a copy; i runs from the last index down   *)
(* to 1 (0-based), j is any index in 0..i.  The result is the set of all   *)
(* outcomes of the random choices.                                         *)
(***************************************************************************)
\* mutation of swap: position j keeps its element
swap_overwrite(a, i, j) == [a EXCEPT ![i] = a[j]]

\* [shuffled[i], shuffled[j]] = [shuffled[j], shuffled[i]]
swap(a, i, j) == [a EXCEPT ![i] = a[j], ![j] = a[i]]

RECURSIVE shuffleFrom(_, _)
shuffleFrom(shuffled, i) ==
    \* i is the 1-based position of the loop index; the loop stops at i = 1
    IF i <= 1 THEN {shuffled}
    ELSE UNION {shuffleFrom(swap(shuffled, i, j), i - 1) : j \in 1..i}

shuffleArray(arr) == shuffleFrom(arr, Len(arr))

slice(seq, n) == SubSeq(seq, 1, IF n < Len(seq) THEN n ELSE Len(seq))

\* parsed entry list and the boards dealCards can pick, per settings payload
EntryListOf == [s \in AllSettingNames |-> parseEntries(SettingsOf(s).entries)]
NeededOf == [s \in AllSettingNames |-> SettingsOf(s).size * SettingsOf(s).size]
BoardsOf == [s \in AllSettingNames |->
                {slice(sh, NeededOf[s]) : sh \in shuffleArray(EntryListOf[s])}]
\* mutation of totalRoundsOr1: settings.totalRounds is ignored
totalRoundsOr1_one(s) == 1

\* (room.settings && room.settings.totalRounds) || 1
totalRoundsOr1(s) ==
    IF s = "null" THEN 1
    ELSE IF SettingsOf(s).totalRounds = 0 THEN 1 ELSE SettingsOf(s).totalRounds

AllEntries == UNION {{EntryListOf[s][i] : i \in 1..Len(EntryListOf[s])} : s \in SettingNames}


(***************************************************************************)
(* State.                                                                  *)
(*  status    - per socket id: "new" (not yet connected), "conn", "gone"   *)
(*  sockRooms - socket.rooms: the room codes each socket has joined        *)
(*  rooms     - the registry: a function from the live codes to rooms      *)
(*  timers    - outstanding setTimeout callbacks in scheduling order       *)
(*  out       - the events emitted by the last handler or callback         *)
(*  crashed   - an exception escaped a callback and ended the process      *)
(***************************************************************************)
VARIABLES status, sockRooms, rooms, timers, out, crashed

vars == <<status, sockRooms, rooms, timers, out, crashed>>

Msg(ev, to, data) == [ev |-> ev, to |-> to, data |-> data]

\* io.to(roomId): the connected sockets that joined the socket.io room
inRoom(code) == {c \in Conns : status[c] = "conn" /\ code \in sockRooms[c]}

\* rooms.set / rooms.delete
mapSet(code, r) == [k \in (DOMAIN rooms) \cup {code} |-> IF k = code THEN r ELSE rooms[k]]
mapDelete(codes) == [k \in (DOMAIN rooms) \ codes |-> rooms[k]]

\* delete obj[key] / obj[key] = v on a plain object
objDelete(obj, key) == [k \in (DOMAIN obj) \ {key} |-> obj[k]]
objSet(obj, key, v) == [k \in (DOMAIN obj) \cup {key} |-> IF k = key THEN v ELSE obj[k]]

\* mutation of newRoom: the room is created as started, in round 1
newRoom_started(code, c) ==
    [id |-> code, hostId |-> c, players |-> <<c>>, settings |-> "null",
     scores |-> <<>>, currentRound |-> 1, gameStarted |-> TRUE,
     calledEntries |-> <<>>, playerCards |-> <<>>, markedCurrent |-> {},
     autoAdvanceTimer |-> FALSE,
     joined |-> {c}]

newRoom(code, c) ==
    [id |-> code, hostId |-> c, players |-> <<c>>, settings |-> "null",
     scores |-> <<>>, currentRound |-> 0, gameStarted |-> FALSE,
     calledEntries |-> <<>>, playerCards |-> <<>>, markedCurrent |-> {},
     autoAdvanceTimer |-> FALSE,
     \* history, not a field of the source: every id that was ever in players
     joined |-> {c}]

(***************************************************************************)
(* Timers.  kind "win" is the 4000 ms callback of declare_win, which looks *)
(* the room up again by roomId; "nc", "cm" and "cm2" are the 1000 ms       *)
(* caller callbacks, whose closure holds the room object itself: det is    *)
(* <<>> while that object is the registry's rooms[roomId], and <<obj>>     *)
(* once the registry dropped or replaced it.  Equal delays fire in         *)
(* scheduling order, and a 1000 ms timer fires before any 4000 ms timer    *)
(* scheduled after it.                                                     *)
(***************************************************************************)
\* declaredIn is history, not part of the closure: the room's currentRound
\* when the declare_win was received.
winTimer(code, tr, round) ==
    [kind |-> "win", roomId |-> code, totalRounds |-> tr, declaredIn |-> round, det |-> <<>>]
callTimer(kind, code, det) ==
    [kind |-> kind, roomId |-> code, totalRounds |-> 0, declaredIn |-> 0, det |-> det]

isLiveCall(t, code) == t.kind # "win" /\ t.roomId = code /\ t.det = <<>>
numWin == Cardinality({i \in 1..Len(timers) : timers[i].kind = "win"})
numDetached == Cardinality({i \in 1..Len(timers) : timers[i].det # <<>>})

\* clearTimeout(room.autoAdvanceTimer) for the registry's room
clearCall(ts, code) == SelectSeq(ts, LAMBDA t : ~isLiveCall(t, code))
\* An object the registry let go of is reachable from its pending callback
\* only.  The callbacks never read scores, currentRound, gameStarted or
\* markedCurrent through it, and read playerCards only for the ids in
\* players, so a detached object keeps the other fields.
unreachable(obj) ==
    [obj EXCEPT !.scores = <<>>, !.currentRound = 0, !.gameStarted = FALSE,
                !.markedCurrent = {}, !.joined = {},
                !.playerCards = [p \in (DOMAIN obj.playerCards)
                                        \cap {obj.players[i] : i \in 1..Len(obj.players)} |->
                                    obj.playerCards[p]]]
detach(ts, code, obj) ==
    [i \in 1..Len(ts) |->
        IF isLiveCall(ts[i], code) THEN [ts[i] EXCEPT !.det = <<unreachable(obj)>>] ELSE ts[i]]
removeAt(ts, i) == SubSeq(ts, 1, i - 1) \o SubSeq(ts, i + 1, Len(ts))
\* the next caller callback to fire, 0 if none
firstCall == IF \E i \in 1..Len(timers) : timers[i].kind # "win"
             THEN CHOOSE i \in 1..Len(timers) :
                    /\ timers[i].kind # "win"
                    /\ \A j \in 1..(i - 1) : timers[j].kind = "win"
             ELSE 0

(***************************************************************************)
(* dealCards(room): d[i] is the board picked for the i-th player of the    *)
(* list; a later occurrence of the same id overwrites an earlier one.      *)
(***************************************************************************)
\* mutation of canDeal: the size of the pool is not looked at
canDeal_always(room) == TRUE

\* !(entryList.length < needed)
canDeal(room) == Len(EntryListOf[room.settings]) >= NeededOf[room.settings]

dealChoices(room) ==
    IF canDeal(room) THEN [1..Len(room.players) -> BoardsOf[room.settings]] ELSE {<<>>}

dealCards(room, d) ==
    IF ~canDeal(room) THEN room
    ELSE LET ids  == {room.players[i] : i \in 1..Len(room.players)}
             last(p) == CHOOSE i \in 1..Len(room.players) :
                          /\ room.players[i] = p
                          /\ \A j \in (i + 1)..Len(room.players) : room.players[j] # p
         IN  [room EXCEPT
                !.playerCards = [p \in (DOMAIN room.playerCards) \cup ids |->
                                   IF p \in ids THEN d[last(p)] ELSE room.playerCards[p]],
                !.markedCurrent = {}]

dealEmits(room, d) ==
    IF ~canDeal(room) THEN {}
    ELSE {Msg("shuffled_card", room.players[i], d[i]) :
             i \in {k \in 1..Len(room.players) : status[room.players[k]] = "conn"}}

\* mutation of playersWithEntry: nobody is taken to hold the entry
playersWithEntry_none(room, e) == {}

\* room.players.filter(p => room.playerCards[p.id] && room.playerCards[p.id].includes(e))
playersWithEntry(room, e) ==
    {room.players[i] : i \in {k \in 1..Len(room.players) :
        /\ room.players[k] \in DOMAIN room.playerCards
        /\ includes(room.playerCards[room.players[k]], e)}}

\* mutation of remainingOf: the called entries are not filtered out
remainingOf_unfiltered(room) == EntryListOf[room.settings]

\* entryList.filter(e => !room.calledEntries.includes(e))
remainingOf(room) ==
    SelectSeq(EntryListOf[room.settings], LAMBDA e : ~includes(room.calledEntries, e))

TypeOK ==
    /\ status \in [Conns -> {"new", "conn", "gone"}]
    /\ sockRooms \in [Conns -> SUBSET Codes]
    /\ DOMAIN rooms \subseteq Codes
    /\ crashed \in BOOLEAN

Init ==
    /\ status = [c \in Conns |-> "new"]
    /\ sockRooms = [c \in Conns |-> {}]
    /\ rooms = <<>>
    /\ timers = <<>>
    /\ out = {}
    /\ crashed = FALSE

\* io.on('connection')
connection(c) ==
    /\ ~crashed
    /\ status[c] = "new"
    /\ status' = [status EXCEPT ![c] = "conn"]
    /\ out' = {}
    /\ UNCHANGED <<sockRooms, rooms, timers, crashed>>

create_room(c, code) ==
    /\ status[c] = "conn"
    /\ rooms' = mapSet(code, newRoom(code, c))
    /\ timers' = IF code \in DOMAIN rooms THEN detach(timers, code, rooms[code]) ELSE timers
    /\ sockRooms' = [sockRooms EXCEPT ![c] = @ \cup {code}]
    /\ out' = {Msg("create_room_reply", c, [roomId |-> code, playerId |-> c])}
    /\ UNCHANGED <<status, crashed>>

\* mutation of join_room: socket.join(roomId) comes before the lookup
join_room_joinFirst(c, code) ==
    /\ status[c] = "conn"
    /\ sockRooms' = [sockRooms EXCEPT ![c] = @ \cup {code}]
    /\ IF code \notin DOMAIN rooms
       THEN /\ out' = {Msg("join_room_reply", c, [error |-> "Room not found"])}
            /\ UNCHANGED <<status, rooms, timers, crashed>>
       ELSE LET room == rooms[code]
                r2 == [room EXCEPT !.players = Append(@, c),
                                   !.scores = objSet(@, c, 0),
                                   !.joined = @ \cup {c}]
            IN  /\ rooms' = mapSet(code, r2)
                /\ out' = {Msg("player_joined", m, [id |-> c]) : m \in inRoom(code) \ {c}}
                          \cup {Msg("join_room_reply", c,
                                    [roomId |-> code, playerId |-> c, hostId |-> r2.hostId,
                                     players |-> r2.players, settings |-> r2.settings,
                                     scores |-> r2.scores, currentRound |-> r2.currentRound,
                                     gameStarted |-> r2.gameStarted,
                                     calledEntries |-> r2.calledEntries])}
                /\ UNCHANGED <<status, timers, crashed>>

\* mutation of join_room: the joiner is put in front of players
join_room_prepend(c, code) ==
    /\ status[c] = "conn"
    /\ IF code \notin DOMAIN rooms
       THEN /\ out' = {Msg("join_room_reply", c, [error |-> "Room not found"])}
            /\ UNCHANGED <<status, sockRooms, rooms, timers, crashed>>
       ELSE LET room == rooms[code]
                r2 == [room EXCEPT !.players = <<c>> \o @,
                                   !.scores = objSet(@, c, 0),
                                   !.joined = @ \cup {c}]
            IN  /\ rooms' = mapSet(code, r2)
                /\ sockRooms' = [sockRooms EXCEPT ![c] = @ \cup {code}]
                /\ out' = {Msg("player_joined", m, [id |-> c]) : m \in inRoom(code) \ {c}}
                          \cup {Msg("join_room_reply", c,
                                    [roomId |-> code, playerId |-> c, hostId |-> r2.hostId,
                                     players |-> r2.players, settings |-> r2.settings,
                                     scores |-> r2.scores, currentRound |-> r2.currentRound,
                                     gameStarted |-> r2.gameStarted,
                                     calledEntries |-> r2.calledEntries])}
                /\ UNCHANGED <<status, timers, crashed>>

join_room(c, code) ==
    /\ status[c] = "conn"
    /\ IF code \notin DOMAIN rooms
       THEN /\ out' = {Msg("join_room_reply", c, [error |-> "Room not found"])}
            /\ UNCHANGED <<status, sockRooms, rooms, timers, crashed>>
       ELSE LET room == rooms[code]
                r2 == [room EXCEPT !.players = Append(@, c),
                                   !.scores = objSet(@, c, 0),
                                   !.joined = @ \cup {c}]
            IN  /\ rooms' = mapSet(code, r2)
                /\ sockRooms' = [sockRooms EXCEPT ![c] = @ \cup {code}]
                /\ out' = {Msg("player_joined", m, [id |-> c]) : m \in inRoom(code) \ {c}}
                          \cup {Msg("join_room_reply", c,
                                    [roomId |-> code, playerId |-> c, hostId |-> r2.hostId,
                                     players |-> r2.players, settings |-> r2.settings,
                                     scores |-> r2.scores, currentRound |-> r2.currentRound,
                                     gameStarted |-> r2.gameStarted,
                                     calledEntries |-> r2.calledEntries])}
                /\ UNCHANGED <<status, timers, crashed>>

update_room_settings(c, code, settings) ==
    /\ status[c] = "conn"
    /\ IF code \in DOMAIN rooms /\ rooms[code].hostId = c
       THEN /\ rooms' = mapSet(code, [rooms[code] EXCEPT !.settings = settings])
            /\ out' = {Msg("room_settings_update", m, settings) : m \in inRoom(code) \ {c}}
       ELSE /\ out' = {}
            /\ UNCHANGED rooms
    /\ UNCHANGED <<status, sockRooms, timers, crashed>>


\* the 4000 ms callback scheduled by declare_win
declare_win_timeout ==
    /\ timers # <<>>
    /\ Head(timers).kind = "win"
    /\ LET code == Head(timers).roomId
           totalRounds == Head(timers).totalRounds
       IN  IF code \notin DOMAIN rooms
           THEN /\ timers' = Tail(timers)
                /\ out' = {}
                /\ UNCHANGED <<status, sockRooms, rooms, crashed>>
           ELSE LET r == rooms[code] IN
                IF r.currentRound >= totalRounds
                THEN /\ timers' = Tail(timers)
                     /\ out' = {Msg("game_over", m, [scores |-> r.scores]) : m \in inRoom(code)}
                     /\ UNCHANGED <<status, sockRooms, rooms, crashed>>
                ELSE IF r.settings = "null"
                THEN \* dealCards destructures room.settings: TypeError, the process exits
                     /\ crashed' = TRUE
                     /\ rooms' = <<>>
                     /\ timers' = <<>>
                     /\ status' = [c \in Conns |-> "gone"]
                     /\ sockRooms' = [c \in Conns |-> {}]
                     /\ out' = {}
                ELSE LET r1 == [r EXCEPT !.currentRound = @ + 1, !.calledEntries = <<>>] IN
                     \E d \in dealChoices(r1) :
                        LET r2 == dealCards(r1, d) IN
                        /\ rooms' = mapSet(code, r2)
                        /\ timers' = Tail(timers)
                        /\ out' = dealEmits(r1, d) \cup
                                  {Msg("new_round", m,
                                       [currentRound |-> r2.currentRound,
                                        totalRounds |-> totalRounds,
                                        scores |-> r2.scores]) : m \in inRoom(code)}
                        /\ UNCHANGED <<status, sockRooms, crashed>>

\* mutation of incrementScore: the previous score is dropped
incrementScore_reset(scores, c) == objSet(scores, c, 1)

\* if (!room.scores[id]) room.scores[id] = 0; room.scores[id]++
incrementScore(scores, c) ==
    objSet(scores, c, (IF c \in DOMAIN scores THEN scores[c] ELSE 0) + 1)

declare_win(c, code) ==
    /\ status[c] = "conn"
    /\ IF code \notin DOMAIN rooms
       THEN /\ out' = {}
            /\ UNCHANGED <<status, sockRooms, rooms, timers, crashed>>
       ELSE LET room == rooms[code]
                r2 == [room EXCEPT !.scores = incrementScore(@, c)]
                totalRounds == totalRoundsOr1(room.settings)
            IN  /\ rooms' = mapSet(code, r2)
                /\ out' = {Msg("player_scored", m,
                               [playerId |-> c, scores |-> r2.scores,
                                currentRound |-> r2.currentRound]) : m \in inRoom(code)}
                /\ timers' = Append(timers, winTimer(code, totalRounds, room.currentRound))
                /\ UNCHANGED <<status, sockRooms, crashed>>

start_game(c, code) ==
    /\ status[c] = "conn"
    /\ IF code \notin DOMAIN rooms \/ rooms[code].settings = "null"
       THEN /\ out' = {}
            /\ UNCHANGED <<status, sockRooms, rooms, timers, crashed>>
       ELSE LET room == rooms[code]
                ids == {room.players[i] : i \in 1..Len(room.players)}
                r1 == [room EXCEPT
                         !.scores = [p \in (DOMAIN room.scores) \cup ids |->
                                       IF p \in DOMAIN room.scores THEN room.scores[p] ELSE 0],
                         !.currentRound = 1,
                         !.gameStarted = TRUE,
                         !.calledEntries = <<>>]
            IN  \E d \in dealChoices(r1) :
                   LET r2 == dealCards(r1, d) IN
                   /\ rooms' = mapSet(code, r2)
                   /\ out' = dealEmits(r1, d) \cup
                             {Msg("game_started", m,
                                  [currentRound |-> r2.currentRound,
                                   totalRounds |-> totalRoundsOr1(r2.settings),
                                   scores |-> r2.scores]) : m \in inRoom(code)}
                   /\ UNCHANGED <<status, sockRooms, timers, crashed>>

next_round(c, code) ==
    /\ status[c] = "conn"
    /\ IF \/ code \notin DOMAIN rooms
          \/ rooms[code].settings = "null"
          \/ rooms[code].hostId # c
          \/ rooms[code].currentRound >= totalRoundsOr1(rooms[code].settings)
       THEN /\ out' = {}
            /\ UNCHANGED <<status, sockRooms, rooms, timers, crashed>>
       ELSE LET room == rooms[code]
                totalRounds == totalRoundsOr1(room.settings)
                r1 == [room EXCEPT !.currentRound = @ + 1, !.calledEntries = <<>>]
            IN  \E d \in dealChoices(r1) :
                   LET r2 == dealCards(r1, d) IN
                   /\ rooms' = mapSet(code, r2)
                   /\ out' = dealEmits(r1, d) \cup
                             {Msg("new_round", m,
                                  [currentRound |-> r2.currentRound,
                                   totalRounds |-> totalRounds,
                                   scores |-> r2.scores]) : m \in inRoom(code)}
                   /\ UNCHANGED <<status, sockRooms, timers, crashed>>

next_call(c, code) ==
    /\ status[c] = "conn"
    /\ IF \/ code \notin DOMAIN rooms
          \/ rooms[code].settings = "null"
          \/ rooms[code].hostId # c
          \/ Len(remainingOf(rooms[code])) = 0
       THEN /\ out' = {}
            /\ UNCHANGED <<status, sockRooms, rooms, timers, crashed>>
       ELSE LET room == rooms[code]
                remaining == remainingOf(room)
            IN  \E k \in 1..Len(remaining) :
                   LET pick == remaining[k]
                       r1 == [room EXCEPT !.calledEntries = Append(@, pick),
                                          !.markedCurrent = {}]
                       nobody == playersWithEntry(r1, pick) = {}
                       cleared == IF room.autoAdvanceTimer THEN clearCall(timers, code) ELSE timers
                   IN  /\ rooms' = mapSet(code, [r1 EXCEPT !.autoAdvanceTimer = nobody])
                       /\ timers' = IF nobody THEN Append(cleared, callTimer("nc", code, <<>>))
                                    ELSE cleared
                       /\ out' = {Msg("entry_called", m,
                                      [entry |-> pick, calledEntries |-> r1.calledEntries,
                                       remaining |-> Len(remaining) - 1]) : m \in inRoom(code)}
                       /\ UNCHANGED <<status, sockRooms, crashed>>


\* the room object a caller callback closed over
timerRoom(t) == IF t.det = <<>> THEN rooms[t.roomId] ELSE t.det[1]

\* the 1000 ms callback scheduled by next_call: socket.emit('next_call', roomId)
next_call_timeout ==
    /\ firstCall # 0
    /\ timers[firstCall].kind = "nc"
    /\ LET t == timers[firstCall]
           room == timerRoom(t)
       IN  /\ timers' = removeAt(timers, firstCall)
           /\ rooms' = IF t.det = <<>>
                       THEN mapSet(t.roomId, [room EXCEPT !.autoAdvanceTimer = FALSE])
                       ELSE rooms
           /\ out' = IF status[room.hostId] = "conn"
                     THEN {Msg("next_call", room.hostId, t.roomId)}
                     ELSE {}
    /\ UNCHANGED <<status, sockRooms, crashed>>

\* the 1000 ms callback scheduled by cell_marked: draws the next entry itself
cell_marked_timeout ==
    /\ firstCall # 0
    /\ timers[firstCall].kind = "cm"
    /\ LET t == timers[firstCall]
           room == [timerRoom(t) EXCEPT !.autoAdvanceTimer = FALSE]
           rem == remainingOf(room)
           rest == removeAt(timers, firstCall)
           put(r) == IF t.det = <<>> THEN mapSet(t.roomId, r) ELSE rooms
       IN  IF Len(rem) = 0
           THEN /\ timers' = rest
                /\ rooms' = put(room)
                /\ out' = {}
           ELSE \E k \in 1..Len(rem) :
                   LET nextPick == rem[k]
                       r1 == [room EXCEPT !.calledEntries = Append(@, nextPick),
                                          !.markedCurrent = {}]
                       nobody == playersWithEntry(r1, nextPick) = {}
                       r2 == [r1 EXCEPT !.autoAdvanceTimer = nobody]
                   IN  /\ rooms' = put(r2)
                       /\ timers' = IF nobody
                                    THEN Append(rest, callTimer("cm2", t.roomId,
                                                   IF t.det = <<>> THEN <<>>
                                                   ELSE <<unreachable(r2)>>))
                                    ELSE rest
                       /\ out' = {Msg("entry_called", m,
                                      [entry |-> nextPick, calledEntries |-> r1.calledEntries,
                                       remaining |-> Len(rem) - 1]) : m \in inRoom(t.roomId)}
    /\ UNCHANGED <<status, sockRooms, crashed>>

\* the nested 1000 ms callback: hostSocket.emit('next_call', roomId)
nested_timeout ==
    /\ firstCall # 0
    /\ timers[firstCall].kind = "cm2"
    /\ LET t == timers[firstCall]
           room == timerRoom(t)
       IN  /\ timers' = removeAt(timers, firstCall)
           /\ rooms' = IF t.det = <<>>
                       THEN mapSet(t.roomId, [room EXCEPT !.autoAdvanceTimer = FALSE])
                       ELSE rooms
           /\ out' = IF status[room.hostId] = "conn"
                     THEN {Msg("next_call", room.hostId, t.roomId)}
                     ELSE {}
    /\ UNCHANGED <<status, sockRooms, crashed>>

\* mutation of cell_marked: entryText is not compared with the current call
cell_marked_anyEntry(c, code, entryText) ==
    /\ status[c] = "conn"
    /\ IF \/ code \notin DOMAIN rooms
          \/ rooms[code].settings = "null"
          \/ Len(rooms[code].calledEntries) = 0
       THEN /\ out' = {}
            /\ UNCHANGED <<rooms, timers>>
       ELSE LET room == rooms[code]
                currentEntry == room.calledEntries[Len(room.calledEntries)]
                r1 == [room EXCEPT !.markedCurrent = @ \cup {c}]
                allMarked == playersWithEntry(r1, currentEntry) \subseteq r1.markedCurrent
                schedule == allMarked /\ ~room.autoAdvanceTimer
            IN  /\ rooms' = mapSet(code, [r1 EXCEPT !.autoAdvanceTimer = @ \/ schedule])
                /\ timers' = IF schedule THEN Append(timers, callTimer("cm", code, <<>>))
                             ELSE timers
                /\ out' = {}
    /\ UNCHANGED <<status, sockRooms, crashed>>

cell_marked(c, code, entryText) ==
    /\ status[c] = "conn"
    /\ IF \/ code \notin DOMAIN rooms
          \/ rooms[code].settings = "null"
          \/ Len(rooms[code].calledEntries) = 0
          \/ entryText # rooms[code].calledEntries[Len(rooms[code].calledEntries)]
       THEN /\ out' = {}
            /\ UNCHANGED <<rooms, timers>>
       ELSE LET room == rooms[code]
                currentEntry == room.calledEntries[Len(room.calledEntries)]
                r1 == [room EXCEPT !.markedCurrent = @ \cup {c}]
                allMarked == playersWithEntry(r1, currentEntry) \subseteq r1.markedCurrent
                schedule == allMarked /\ ~room.autoAdvanceTimer
            IN  /\ rooms' = mapSet(code, [r1 EXCEPT !.autoAdvanceTimer = @ \/ schedule])
                /\ timers' = IF schedule THEN Append(timers, callTimer("cm", code, <<>>))
                             ELSE timers
                /\ out' = {}
    /\ UNCHANGED <<status, sockRooms, crashed>>

\* mutation of reset_calls: the host test is missing
reset_calls_anyone(c, code) ==
    /\ status[c] = "conn"
    /\ IF code \notin DOMAIN rooms
       THEN /\ out' = {}
            /\ UNCHANGED rooms
       ELSE /\ rooms' = mapSet(code, [rooms[code] EXCEPT !.calledEntries = <<>>])
            /\ out' = {Msg("calls_reset", m, <<>>) : m \in inRoom(code)}
    /\ UNCHANGED <<status, sockRooms, timers, crashed>>

reset_calls(c, code) ==
    /\ status[c] = "conn"
    /\ IF code \notin DOMAIN rooms \/ rooms[code].hostId # c
       THEN /\ out' = {}
            /\ UNCHANGED rooms
       ELSE /\ rooms' = mapSet(code, [rooms[code] EXCEPT !.calledEntries = <<>>])
            /\ out' = {Msg("calls_reset", m, <<>>) : m \in inRoom(code)}
    /\ UNCHANGED <<status, sockRooms, timers, crashed>>

\* mutation of leave: the room falls back to the lobby
leave_toLobby(room, c) ==
    [room EXCEPT !.players = SelectSeq(@, LAMBDA p : p # c),
                 !.scores = objDelete(@, c),
                 !.gameStarted = FALSE]

\* mutation of leave: the scores entry is kept
leave_keepScore(room, c) ==
    [room EXCEPT !.players = SelectSeq(@, LAMBDA p : p # c)]

\* r.players = r.players.filter(p => p.id !== socket.id); delete r.scores[socket.id]
leave(room, c) ==
    [room EXCEPT !.players = SelectSeq(@, LAMBDA p : p # c),
                 !.scores = objDelete(@, c)]

\* mutation of noPlayers: the emptiness test never succeeds
noPlayers_never(room) == FALSE

\* r.players.length === 0
noPlayers(room) == Len(room.players) = 0

disconnecting(c) ==
    /\ status[c] = "conn"
    /\ LET mine == sockRooms[c] \cap DOMAIN rooms
           after(code) == leave(rooms[code], c)
           emptied == {code \in mine : noPlayers(after(code))}
       IN  /\ rooms' = [k \in (DOMAIN rooms) \ emptied |->
                           IF k \in mine THEN after(k) ELSE rooms[k]]
           /\ timers' = [i \in 1..Len(timers) |->
                           IF timers[i].roomId \in emptied
                           THEN detach(timers, timers[i].roomId, after(timers[i].roomId))[i]
                           ELSE timers[i]]
           /\ out' = UNION {{Msg("player_left", m, [id |-> c, scores |-> after(code).scores]) :
                               m \in inRoom(code) \ {c}} : code \in mine \ emptied}
    /\ status' = [status EXCEPT ![c] = "gone"]
    /\ sockRooms' = [sockRooms EXCEPT ![c] = {}]
    /\ UNCHANGED crashed

(***************************************************************************)
(* The environment: which events the clients send.  A bound withholds an   *)
(* event until the state is back under the bound.                          *)
(***************************************************************************)
isPlayer(c, code) ==
    code \in DOMAIN rooms /\ \E i \in 1..Len(rooms[code].players) : rooms[code].players[i] = c

roomFor(code) == code \in DOMAIN rooms => Len(rooms[code].players) < MaxPlayers

scoreFor(c, code) ==
    /\ numWin < MaxWinTimers
    /\ (code \in DOMAIN rooms /\ c \in DOMAIN rooms[code].scores)
          => rooms[code].scores[c] < MaxScore

\* the rooms a disconnect of c empties
emptiedBy(c) ==
    {code \in sockRooms[c] \cap DOMAIN rooms :
        \A i \in 1..Len(rooms[code].players) : rooms[code].players[i] = c}

\* dropping these rooms from the registry keeps the detached timers in bound
mayDrop(codes) ==
    Cardinality({code \in codes \cap DOMAIN rooms : rooms[code].autoAdvanceTimer})
        + numDetached <= MaxDetached

\* The whole server: every event from every connection, every callback.
Next ==
    \/ \E c \in Conns : connection(c)
    \/ \E c \in Conns, code \in Codes : mayDrop({code}) /\ create_room(c, code)
    \/ \E c \in Conns, code \in Codes : roomFor(code) /\ join_room(c, code)
    \/ \E c \in Conns, code \in Codes, s \in SettingNames : update_room_settings(c, code, s)
    \/ \E c \in Conns, code \in Codes : scoreFor(c, code) /\ declare_win(c, code)
    \/ declare_win_timeout
    \/ \E c \in Conns, code \in Codes : start_game(c, code)
    \/ \E c \in Conns, code \in Codes : next_round(c, code)
    \/ \E c \in Conns, code \in Codes : next_call(c, code)
    \/ next_call_timeout
    \/ \E c \in Conns, code \in Codes, e \in AllEntries : cell_marked(c, code, e)
    \/ cell_marked_timeout
    \/ nested_timeout
    \/ \E c \in Conns, code \in Codes : reset_calls(c, code)
    \/ \E c \in Conns : mayDrop(emptiedBy(c)) /\ disconnecting(c)

Spec == Init /\ [][Next]_vars

\* Membership, settings, scoring and rounds: the clients send no caller event
\* (next_call, cell_marked, reset_calls), so no caller timer is ever scheduled.
NextRounds ==
    \/ \E c \in Conns : connection(c)
    \/ \E c \in Conns, code \in Codes : create_room(c, code)
    \/ \E c \in Conns, code \in Codes : roomFor(code) /\ join_room(c, code)
    \/ \E c \in Conns, code \in Codes, s \in SettingNames : update_room_settings(c, code, s)
    \/ \E c \in Conns, code \in Codes : scoreFor(c, code) /\ declare_win(c, code)
    \/ declare_win_timeout
    \/ \E c \in Conns, code \in Codes : start_game(c, code)
    \/ \E c \in Conns, code \in Codes : next_round(c, code)
    \/ \E c \in Conns : disconnecting(c)

SpecRounds == Init /\ [][NextRounds]_vars

\* Membership, settings, round starts and the caller: the clients send no
\* declare_win, and no create_room for a code whose room has a timer pending.
NextCaller ==
    \/ \E c \in Conns : connection(c)
    \/ \E c \in Conns, code \in Codes :
          /\ code \in DOMAIN rooms => ~rooms[code].autoAdvanceTimer
          /\ create_room(c, code)
    \/ \E c \in Conns, code \in Codes : roomFor(code) /\ join_room(c, code)
    \/ \E c \in Conns, code \in Codes, s \in SettingNames : update_room_settings(c, code, s)
    \/ \E c \in Conns, code \in Codes : start_game(c, code)
    \/ \E c \in Conns, code \in Codes : next_round(c, code)
    \/ \E c \in Conns, code \in Codes : next_call(c, code)
    \/ next_call_timeout
    \/ \E c \in Conns, code \in Codes, e \in AllEntries : cell_marked(c, code, e)
    \/ cell_marked_timeout
    \/ nested_timeout
    \/ \E c \in Conns, code \in Codes : reset_calls(c, code)
    \/ \E c \in Conns : mayDrop(emptiedBy(c)) /\ disconnecting(c)

SpecCaller == Init /\ [][NextCaller]_vars

\* The dealer on its own: a lobby of one to MaxPlayers players (a socket may
\* have joined twice) whose host has sent any one of the settings payloads,
\* and then the start_game event that deals the first boards.
InitDeal ==
    \E s \in AllSettingNames, n \in 1..MaxPlayers :
       \E ps \in [1..n -> Conns] :
          LET ids == {ps[i] : i \in 1..n}
              lobby == [newRoom("R1", ps[1]) EXCEPT
                          !.players = ps,
                          !.settings = s,
                          !.scores = [p \in {ps[i] : i \in 2..n} |-> 0],
                          !.joined = ids]
          IN  /\ status = [c \in Conns |-> "conn"]
              /\ sockRooms = [c \in Conns |-> IF c \in ids THEN {"R1"} ELSE {}]
              /\ rooms = [k \in {"R1"} |-> lobby]
              /\ timers = <<>>
              /\ out = {}
              /\ crashed = FALSE

NextDeal ==
    \E c \in Conns, code \in DOMAIN rooms :
       ~rooms[code].gameStarted /\ start_game(c, code)

SpecDeal == InitDeal /\ [][NextDeal]_vars

\* Scoring on its own: a two-player room as start_game leaves it in round 1
\* of a two-round game, and then only declare_win events, their delayed
\* callbacks and disconnects, so that nothing but a callback moves the round.
InitWins ==
    \E h \in Conns : \E g \in Conns \ {h} :
       LET started == [newRoom("R1", h) EXCEPT
                         !.players = <<h, g>>,
                         !.settings = "SetA",
                         !.scores = [p \in {h, g} |-> 0],
                         !.currentRound = 1,
                         !.gameStarted = TRUE,
                         !.joined = {h, g}]
       IN  /\ status = [c \in Conns |-> "conn"]
           /\ sockRooms = [c \in Conns |-> {"R1"}]
           /\ timers = <<>>
           /\ crashed = FALSE
           /\ \E d \in dealChoices(started) :
                 /\ rooms = [k \in {"R1"} |-> dealCards(started, d)]
                 /\ out = dealEmits(started, d) \cup
                          {Msg("game_started", m,
                               [currentRound |-> 1,
                                totalRounds |-> totalRoundsOr1("SetA"),
                                scores |-> started.scores]) : m \in Conns}

NextWins ==
    \/ \E c \in Conns, code \in Codes : scoreFor(c, code) /\ declare_win(c, code)
    \/ declare_win_timeout
    \/ \E c \in Conns : disconnecting(c)

SpecWins == InitWins /\ [][NextWins]_vars


(***************************************************************************)
(* Properties.                                                             *)
(***************************************************************************)
playerIds(room) == {room.players[i] : i \in 1..Len(room.players)}
scoreOr0(scores, c) == IF c \in DOMAIN scores THEN scores[c] ELSE 0

\* C1: in every reachable state the hostId of every room of the registry is
\* the id of one of the room's players.
C1_HostIsPlayer ==
    \A code \in DOMAIN rooms : rooms[code].hostId \in playerIds(rooms[code])

\* C2: no room of the registry has an empty players list; the disconnecting
\* step that removes the last player of a room removes the room in that same
\* step; and a join_room naming a code that is not in the registry answers
\* 'Room not found' and changes nothing.
C2_NoEmptyRoom ==
    /\ [](\A code \in DOMAIN rooms : Len(rooms[code].players) > 0)
    /\ [][\A c \in Conns : disconnecting(c) =>
             \A code \in sockRooms[c] \cap DOMAIN rooms :
                playerIds(rooms[code]) \subseteq {c} => code \notin DOMAIN rooms']_vars
    /\ [][\A c \in Conns, code \in Codes :
             (code \notin DOMAIN rooms /\ join_room(c, code)) =>
                /\ out' = {Msg("join_room_reply", c, [error |-> "Room not found"])}
                /\ rooms' = rooms]_vars

\* C2 witness: the last player of R1 has left, R1 is gone (a declare_win
\* timer of R1 is still pending, so R1 did exist), and a join_room for R1
\* has just been answered with the error.
C2_Witness ==
    /\ "R1" \notin DOMAIN rooms
    /\ \E i \in 1..Len(timers) : timers[i].kind = "win" /\ timers[i].roomId = "R1"
    /\ \E c \in Conns : status[c] = "gone"
    /\ \E c \in Conns : out = {Msg("join_room_reply", c, [error |-> "Room not found"])}

\* C3: in every reachable state no entry occurs twice in the calledEntries
\* of a room.
C3_NoDuplicateCalls ==
    \A code \in DOMAIN rooms :
        LET called == rooms[code].calledEntries IN
        \A i, j \in 1..Len(called) : i # j => called[i] # called[j]

\* C3 witness: two entries are called, the pool text repeats an entry, and
\* the second draw was made by the cell_marked timer callback (it alone
\* schedules the nested timer).
C3_Witness ==
    \E code \in DOMAIN rooms :
        /\ Len(rooms[code].calledEntries) = 2
        /\ rooms[code].settings = "SetA"
        /\ \E i \in 1..Len(timers) : timers[i].kind = "cm2" /\ isLiveCall(timers[i], code)

\* C4: in every reachable state a room that has settings has
\* currentRound <= settings.totalRounds (an absent totalRounds read as 1).
C4_RoundWithinTotal ==
    \A code \in DOMAIN rooms :
        rooms[code].settings # "null" =>
            rooms[code].currentRound <= totalRoundsOr1(rooms[code].settings)

\* C5: a declare_win from c on an existing room raises scores[c] by exactly
\* one (an absent entry counting as 0), leaves every other score as it was,
\* and sends player_scored with the new scores to every socket of the room,
\* which includes every player and so c when c is one.
C5_DeclareWinScores ==
    [][\A c \in Conns, code \in Codes :
          (code \in DOMAIN rooms /\ declare_win(c, code)) =>
             /\ code \in DOMAIN rooms'
             /\ LET old == rooms[code].scores
                    new == rooms'[code].scores
                IN  /\ DOMAIN new = (DOMAIN old) \cup {c}
                    /\ new[c] = scoreOr0(old, c) + 1
                    /\ \A d \in (DOMAIN old) \ {c} : new[d] = old[d]
                    /\ \A m \in inRoom(code) \cup playerIds(rooms[code]) :
                          Msg("player_scored", m,
                              [playerId |-> c, scores |-> new,
                               currentRound |-> rooms[code].currentRound]) \in out']_vars

\* C5 witness: a player has just been told of its own second win while the
\* other player's score is still 1.
C5_Witness ==
    \E m \in out :
        /\ m.ev = "player_scored"
        /\ m.to = m.data.playerId
        /\ m.data.scores[m.to] = 2
        /\ \E d \in (DOMAIN m.data.scores) \ {m.to} : m.data.scores[d] = 1

\* C6: the score of a connection that stays a player of a room and keeps
\* its scores entry never decreases from one state to the next.
C6_ScoreNeverDecreases ==
    [][\A code \in Codes, c \in Conns :
          (/\ code \in DOMAIN rooms /\ code \in DOMAIN rooms'
           /\ c \in playerIds(rooms[code]) /\ c \in playerIds(rooms'[code])
           /\ c \in DOMAIN rooms[code].scores /\ c \in DOMAIN rooms'[code].scores)
          => rooms'[code].scores[c] >= rooms[code].scores[c]]_vars

\* C7: in every reachable state every key of a room's scores is the id of a
\* connection that is or has been in the room's players list.
C7_ScoreKeysJoined ==
    \A code \in DOMAIN rooms : DOMAIN rooms[code].scores \subseteq rooms[code].joined

\* C8: when the callback of a declare_win that was received while
\* currentRound >= totalRounds fires on a started room of the registry, it
\* sends game_over with the scores to the room, leaves currentRound,
\* calledEntries and the dealt boards as they are, and sends no
\* shuffled_card.
C8_FinalWinEndsGame ==
    [][(/\ declare_win_timeout
        /\ Head(timers).roomId \in DOMAIN rooms
        /\ rooms[Head(timers).roomId].gameStarted
        /\ Head(timers).declaredIn >= Head(timers).totalRounds)
       => LET code == Head(timers).roomId IN
          /\ code \in DOMAIN rooms'
          /\ rooms'[code].currentRound = rooms[code].currentRound
          /\ rooms'[code].calledEntries = rooms[code].calledEntries
          /\ rooms'[code].playerCards = rooms[code].playerCards
          /\ \A m \in out' : m.ev # "shuffled_card"
          /\ \A m \in inRoom(code) :
                Msg("game_over", m, [scores |-> rooms[code].scores]) \in out']_vars

\* C9: when the callback of a declare_win that was received in round r with
\* r < totalRounds fires on a room of the registry, the room is in round
\* r + 1 afterwards, calledEntries is empty, every player has been sent the
\* board now stored for it, and new_round with currentRound = r + 1 has been
\* sent to the room.
C9_WinAdvancesRound ==
    [][(/\ declare_win_timeout
        /\ Head(timers).roomId \in DOMAIN rooms
        /\ Head(timers).declaredIn < Head(timers).totalRounds)
       => LET code == Head(timers).roomId
              r == Head(timers).declaredIn
          IN  /\ code \in DOMAIN rooms'
              /\ rooms'[code].currentRound = r + 1
              /\ rooms'[code].calledEntries = <<>>
              /\ \A p \in playerIds(rooms'[code]) :
                    /\ p \in DOMAIN rooms'[code].playerCards
                    /\ Msg("shuffled_card", p, rooms'[code].playerCards[p]) \in out'
              /\ \A m \in inRoom(code) :
                    \E msg \in out' : /\ msg.ev = "new_round"
                                      /\ msg.to = m
                                      /\ msg.data.currentRound = r + 1]_vars

\* C10: when the 1000 ms timer scheduled by a next_call whose pick nobody
\* holds fires on a room of the registry that has uncalled entries left, the
\* server appends a further entry to calledEntries in that step.
C10_TimerDrawsNext ==
    [][(/\ next_call_timeout
        /\ timers[firstCall].det = <<>>
        /\ Len(remainingOf(rooms[timers[firstCall].roomId])) > 0)
       => LET code == timers[firstCall].roomId IN
          /\ code \in DOMAIN rooms'
          /\ Len(rooms'[code].calledEntries) = Len(rooms[code].calledEntries) + 1]_vars

\* C11: in every reachable state every room of the registry has at most one
\* outstanding deferred auto-advance action, counting the caller timers that
\* hold the room and the declare_win advance timers that name it.
C11_OneDeferredAdvance ==
    \A code \in DOMAIN rooms :
        Cardinality({i \in 1..Len(timers) :
                        /\ timers[i].roomId = code
                        /\ (timers[i].kind = "win" \/ timers[i].det = <<>>)}) <= 1

\* C12: a timer callback that fires when its room is no longer in the
\* registry (every player has disconnected) only goes away: the registry is
\* unchanged, no further timer is scheduled, no entry is drawn and nothing
\* is emitted.  This holds for the caller timers and for the declare_win
\* advance timer alike.
C12_GoneRoomTimerNoOp ==
    [][/\ (/\ firstCall # 0
            /\ timers[firstCall].det # <<>>
            /\ timers[firstCall].roomId \notin DOMAIN rooms
            /\ (next_call_timeout \/ cell_marked_timeout \/ nested_timeout))
           => /\ rooms' = rooms
              /\ out' = {}
              /\ timers' = removeAt(timers, firstCall)
       /\ (/\ timers # <<>>
            /\ Head(timers).kind = "win"
            /\ Head(timers).roomId \notin DOMAIN rooms
            /\ declare_win_timeout)
           => /\ rooms' = rooms
              /\ out' = {}
              /\ timers' = Tail(timers)]_vars

\* C13: a start_game for a room of the registry sent by a connection that is
\* not the room's hostId leaves currentRound, gameStarted, calledEntries,
\* scores and the dealt boards as they are and emits neither game_started
\* nor shuffled_card.
C13_StartGameHostOnly ==
    [][\A c \in Conns, code \in Codes :
          (/\ code \in DOMAIN rooms
           /\ rooms[code].hostId # c
           /\ start_game(c, code))
          => /\ code \in DOMAIN rooms'
             /\ rooms'[code].currentRound = rooms[code].currentRound
             /\ rooms'[code].gameStarted = rooms[code].gameStarted
             /\ rooms'[code].calledEntries = rooms[code].calledEntries
             /\ rooms'[code].scores = rooms[code].scores
             /\ rooms'[code].playerCards = rooms[code].playerCards
             /\ \A m \in out' : m.ev \notin {"game_started", "shuffled_card"}]_vars

\* C14: an update_room_settings, next_round, next_call or reset_calls sent
\* by a connection that is not the hostId of the room it names, or naming a
\* code that is not in the registry, leaves the registry (settings,
\* currentRound, calledEntries, markedCurrent, autoAdvanceTimer) and the
\* outstanding timers as they are and emits nothing.
C14_HostOnlyDropped ==
    [][\A c \in Conns, code \in Codes :
          (/\ (code \notin DOMAIN rooms \/ rooms[code].hostId # c)
           /\ \/ \E s \in SettingNames : update_room_settings(c, code, s)
              \/ next_round(c, code)
              \/ next_call(c, code)
              \/ reset_calls(c, code))
          => /\ rooms' = rooms
             /\ timers' = timers
             /\ out' = {}]_vars

\* C14 witness: a connected player that is not the host sits in a room in
\* which each of the four events would have an effect if it were obeyed
\* (a round below totalRounds, a called entry, uncalled entries left, a
\* caller timer pending), and the last event was answered with nothing.
C14_Witness ==
    \E code \in DOMAIN rooms, c \in Conns :
        /\ status[c] = "conn"
        /\ c \in playerIds(rooms[code])
        /\ rooms[code].hostId # c
        /\ rooms[code].settings = "SetA"
        /\ rooms[code].currentRound = 1
        /\ Len(rooms[code].calledEntries) = 1
        /\ Len(remainingOf(rooms[code])) > 0
        /\ rooms[code].autoAdvanceTimer
        /\ out = {}

\* C15: when the parsed entry list of a room's settings has fewer than
\* size*size entries, a start_game or next_round for the room is dropped:
\* currentRound, gameStarted and calledEntries keep their values and
\* neither game_started nor new_round is emitted.
C15_NoStartWithoutEntries ==
    [][\A c \in Conns, code \in Codes :
          (/\ code \in DOMAIN rooms
           /\ rooms[code].settings # "null"
           /\ ~canDeal(rooms[code])
           /\ (start_game(c, code) \/ next_round(c, code)))
          => /\ code \in DOMAIN rooms'
             /\ rooms'[code].currentRound = rooms[code].currentRound
             /\ rooms'[code].gameStarted = rooms[code].gameStarted
             /\ rooms'[code].calledEntries = rooms[code].calledEntries
             /\ \A m \in out' : m.ev \notin {"game_started", "new_round"}]_vars

\* C16: a join_room from c naming a code that is not in the registry sends
\* the error reply to c and nothing to anyone else, puts c into no room
\* (neither a players list nor a socket.io room), creates no score entry and
\* leaves the registry and the timers as they are.
C16_JoinUnknownRoom ==
    [][\A c \in Conns, code \in Codes :
          (code \notin DOMAIN rooms /\ join_room(c, code))
          => /\ out' = {Msg("join_room_reply", c, [error |-> "Room not found"])}
             /\ rooms' = rooms
             /\ sockRooms' = sockRooms
             /\ timers' = timers
             /\ status' = status]_vars

\* C16 witness: c has just been refused; c is connected and in no room, the
\* registry is empty, and the code did name a room before (a caller timer
\* of that room is still pending).
C16_Witness ==
    \E c \in Conns :
        /\ out = {Msg("join_room_reply", c, [error |-> "Room not found"])}
        /\ status[c] = "conn"
        /\ sockRooms[c] = {}
        /\ rooms = <<>>
        /\ \E i \in 1..Len(timers) : timers[i].roomId = "R1" /\ timers[i].det # <<>>

\* C17: in every reachable state the server process is alive: no handler
\* and no timer callback has ended with an uncaught exception.
C17_NoFatalError == crashed = FALSE

\* C18: once start_game has dealt in a room whose parsed entry list P has at
\* least size*size items, every player of the room holds a board of exactly
\* size*size entries (positions 0..size*size-1), every entry is an item of
\* P, and no entry text occurs twice within one board.
C18_BoardsWellFormed ==
    \A code \in DOMAIN rooms :
        LET room == rooms[code] IN
        (room.gameStarted /\ room.settings # "null" /\ canDeal(room)) =>
            \A p \in playerIds(room) :
                /\ p \in DOMAIN room.playerCards
                /\ LET board == room.playerCards[p] IN
                   /\ Len(board) = NeededOf[room.settings]
                   /\ \A i \in 1..Len(board) : includes(EntryListOf[room.settings], board[i])
                   /\ \A i, j \in 1..Len(board) : i # j => board[i] # board[j]

occurrences(seq, e) == Cardinality({i \in 1..Len(seq) : seq[i] = e})
elements(seq) == {seq[i] : i \in 1..Len(seq)}

scenario(code, X, Y, round, sx, sy) ==
    /\ X # Y
    /\ code \in DOMAIN rooms
    /\ rooms[code].players \in {<<X, Y>>, <<Y, X>>}
    /\ inRoom(code) = {X, Y}
    /\ rooms[code].settings = "SetA"
    /\ rooms[code].gameStarted
    /\ rooms[code].currentRound = round
    /\ rooms[code].scores = (X :> sx) @@ (Y :> sy)

\* C20: in a started two-player room with totalRounds = 2 and a sufficient
\* pool, (a) X's declare_win in round 1 makes X's score 1 and schedules the
\* advance; (b) when that callback fires, the room goes to round 2 and
\* new_round with currentRound = 2 is sent to both; (c) Y's declare_win in
\* round 2 then makes Y's score 1 with X's still 1; (d) when that callback
\* fires, game_over with the scores X: 1, Y: 1 is sent to both and the room
\* stays as it is.
C20_TwoRoundGame ==
    [][\A code \in Codes, X \in Conns, Y \in Conns :
          /\ (scenario(code, X, Y, 1, 0, 0) /\ timers = <<>> /\ declare_win(X, code))
                => /\ rooms'[code].scores = (X :> 1) @@ (Y :> 0)
                   /\ rooms'[code].currentRound = 1
                   /\ timers' = <<winTimer(code, 2, 1)>>
          /\ (/\ scenario(code, X, Y, 1, 1, 0)
              /\ timers = <<winTimer(code, 2, 1)>>
              /\ declare_win_timeout)
                => /\ rooms'[code].currentRound = 2
                   /\ rooms'[code].scores = (X :> 1) @@ (Y :> 0)
                   /\ timers' = <<>>
                   /\ \A m \in {X, Y} :
                         Msg("new_round", m,
                             [currentRound |-> 2, totalRounds |-> 2,
                              scores |-> (X :> 1) @@ (Y :> 0)]) \in out'
                   /\ \A m \in out' : m.ev # "game_over"
          /\ (scenario(code, X, Y, 2, 1, 0) /\ timers = <<>> /\ declare_win(Y, code))
                => /\ rooms'[code].scores = (X :> 1) @@ (Y :> 1)
                   /\ rooms'[code].currentRound = 2
                   /\ timers' = <<winTimer(code, 2, 2)>>
          /\ (/\ scenario(code, X, Y, 2, 1, 1)
              /\ timers = <<winTimer(code, 2, 2)>>
              /\ declare_win_timeout)
                => /\ rooms' = rooms
                   /\ timers' = <<>>
                   /\ out' = {Msg("game_over", m, [scores |-> (X :> 1) @@ (Y :> 1)]) :
                                m \in {X, Y}}]_vars

\* C20 witness: the end of the scenario; the second callback has fired in
\* round 2 of 2 and both players have been sent game_over with 1 : 1.
C20_Witness ==
    \E code \in Codes, X \in Conns, Y \in Conns :
        /\ scenario(code, X, Y, 2, 1, 1)
        /\ timers = <<>>
        /\ out = {Msg("game_over", m, [scores |-> (X :> 1) @@ (Y :> 1)]) : m \in {X, Y}}

\* C21: the disconnecting step of a connection c that is a player of a room
\* with another player left keeps the room, takes c out of its players
\* list and deletes c's scores entry, and sends every remaining player
\* player_left with the scores without c; and from then on neither the
\* room's scores nor any scores broadcast (player_left, player_scored,
\* new_round, game_started, game_over) has an entry for a former player
\* that has disconnected.
C21_LeaverForgotten ==
    /\ [][\A c \in Conns : disconnecting(c) =>
             \A code \in DOMAIN rooms :
                (c \in playerIds(rooms[code]) /\ ~(playerIds(rooms[code]) \subseteq {c}))
                => /\ code \in DOMAIN rooms'
                   /\ c \notin playerIds(rooms'[code])
                   /\ c \notin DOMAIN rooms'[code].scores
                   /\ \A m \in playerIds(rooms'[code]) :
                         Msg("player_left", m,
                             [id |-> c, scores |-> rooms'[code].scores]) \in out']_vars
    /\ [](\A code \in DOMAIN rooms :
             \A c \in rooms[code].joined :
                status[c] = "gone" =>
                   /\ c \notin DOMAIN rooms[code].scores
                   /\ \A m \in out :
                         m.ev \in {"player_left", "player_scored", "new_round",
                                   "game_started", "game_over"}
                            => c \notin DOMAIN m.data.scores)

\* C21 witness: a connection that joined the room (and so had a scores
\* entry) has disconnected, and a player_scored sent afterwards carries
\* scores without it.
C21_Witness ==
    \E code \in DOMAIN rooms :
        \E c \in rooms[code].joined \ {rooms[code].hostId} :
            /\ status[c] = "gone"
            /\ \E m \in out : /\ m.ev = "player_scored"
                               /\ c \notin DOMAIN m.data.scores
                               /\ m.data.scores[m.to] = 2

\* C22: once game_over has been broadcast for a started room that is in
\* its last round, the room is finished: the next start_game, next_round,
\* declare_win or declare_win callback leaves the room in the registry with
\* the same currentRound and the same dealt boards.
C22_GameOverIsFinal ==
    [][\A code \in Codes :
          (/\ code \in DOMAIN rooms
           /\ rooms[code].gameStarted
           /\ rooms[code].settings # "null"
           /\ rooms[code].currentRound = totalRoundsOr1(rooms[code].settings)
           /\ \E m \in out : m.ev = "game_over" /\ m.to \in playerIds(rooms[code])
           /\ \/ \E c \in Conns : \/ start_game(c, code)
                                   \/ next_round(c, code)
                                   \/ declare_win(c, code)
              \/ declare_win_timeout)
          => /\ code \in DOMAIN rooms'
             /\ rooms'[code].currentRound = rooms[code].currentRound
             /\ rooms'[code].playerCards = rooms[code].playerCards]_vars

\* C23: in every reachable state of a room that has settings, calledEntries
\* is no longer than the parsed entry list of the room's current settings.
C23_CallsWithinPool ==
    \A code \in DOMAIN rooms :
        rooms[code].settings # "null" =>
            Len(rooms[code].calledEntries) <= Len(EntryListOf[rooms[code].settings])

\* C24: a create_room allocates a code that no room of the registry uses,
\* and every room that was in the registry is still there unchanged.
C24_CreateKeepsRooms ==
    [][\A c \in Conns, code \in Codes :
          create_room(c, code)
          => /\ code \notin DOMAIN rooms
             /\ \A k \in DOMAIN rooms : k \in DOMAIN rooms' /\ rooms'[k] = rooms[k]]_vars

\* C25: right after a create_room by c the room under the returned code has
\* players = [c], hostId = c, settings null, no scores, currentRound 0,
\* gameStarted false, no called entry, no dealt board, an empty
\* markedCurrent and no caller timer, and the reply, sent to c alone,
\* carries the code and c's id.
C25_FreshRoom ==
    [][\A c \in Conns, code \in Codes :
          create_room(c, code)
          => /\ code \in DOMAIN rooms'
             /\ rooms'[code].id = code
             /\ rooms'[code].players = <<c>>
             /\ rooms'[code].hostId = c
             /\ rooms'[code].settings = "null"
             /\ rooms'[code].scores = <<>>
             /\ rooms'[code].currentRound = 0
             /\ rooms'[code].gameStarted = FALSE
             /\ rooms'[code].calledEntries = <<>>
             /\ rooms'[code].playerCards = <<>>
             /\ rooms'[code].markedCurrent = {}
             /\ rooms'[code].autoAdvanceTimer = FALSE
             /\ \A i \in 1..Len(timers') : ~isLiveCall(timers'[i], code)
             /\ code \in sockRooms'[c]
             /\ out' = {Msg("create_room_reply", c, [roomId |-> code, playerId |-> c])}]_vars

\* C25 witness: c has just created the room while a caller timer of an
\* earlier room of the same code, deleted since, is still outstanding.
C25_Witness ==
    \E c \in Conns, code \in DOMAIN rooms :
        /\ out = {Msg("create_room_reply", c, [roomId |-> code, playerId |-> c])}
        /\ rooms[code].players = <<c>>
        /\ \E i \in 1..Len(timers) : timers[i].roomId = code /\ timers[i].det # <<>>

\* C26: a join_room from c on a room of the registry appends c at the end
\* of players, sets c's score to 0 and leaves the other scores alone, sends
\* player_joined to every other player and not to c, and answers c with the
\* snapshot (hostId, players, settings, scores, currentRound, gameStarted,
\* calledEntries) of the room after the join; it deals nothing: the boards
\* stay as they are, no shuffled_card is sent, and a c that was not a
\* player before has no board.
C26_JoinSnapshot ==
    [][\A c \in Conns, code \in Codes :
          (code \in DOMAIN rooms /\ join_room(c, code))
          => /\ code \in DOMAIN rooms'
             /\ LET old == rooms[code]
                    new == rooms'[code]
                IN  /\ new.players = Append(old.players, c)
                    /\ DOMAIN new.scores = (DOMAIN old.scores) \cup {c}
                    /\ new.scores[c] = 0
                    /\ \A d \in (DOMAIN old.scores) \ {c} : new.scores[d] = old.scores[d]
                    /\ \A m \in playerIds(old) \ {c} :
                          Msg("player_joined", m, [id |-> c]) \in out'
                    /\ \A m \in out' : m.ev = "player_joined" => m.to # c
                    /\ Msg("join_room_reply", c,
                           [roomId |-> code, playerId |-> c, hostId |-> old.hostId,
                            players |-> new.players, settings |-> old.settings,
                            scores |-> new.scores, currentRound |-> old.currentRound,
                            gameStarted |-> old.gameStarted,
                            calledEntries |-> old.calledEntries]) \in out'
                    /\ new.playerCards = old.playerCards
                    /\ \A m \in out' : m.ev # "shuffled_card"
                    /\ c \notin playerIds(old) => c \notin DOMAIN new.playerCards
                    /\ new.hostId = old.hostId
                    /\ new.settings = old.settings
                    /\ new.currentRound = old.currentRound
                    /\ new.gameStarted = old.gameStarted
                    /\ new.calledEntries = old.calledEntries]_vars

\* C26 witness: c has just joined a started room in which an entry has been
\* called; the snapshot it got shows the call, the host has a board and has
\* been told of c, and c has no board.
C26_Witness ==
    \E code \in DOMAIN rooms, c \in Conns :
        LET room == rooms[code] IN
        /\ room.gameStarted
        /\ Len(room.players) = 2
        /\ room.players[2] = c
        /\ room.hostId # c
        /\ room.hostId \in DOMAIN room.playerCards
        /\ c \notin DOMAIN room.playerCards
        /\ Msg("player_joined", room.hostId, [id |-> c]) \in out
        /\ \E m \in out : /\ m.ev = "join_room_reply"
                           /\ m.to = c
                           /\ Len(m.data.calledEntries) = 1
                           /\ m.data.players = room.players

\* C27: in every reachable state the players list of every room holds each
\* connection id at most once.
C27_PlayersUnique ==
    \A code \in DOMAIN rooms :
        LET players == rooms[code].players IN
        \A i, j \in 1..Len(players) : i # j => players[i] # players[j]

\* C28: a cell_marked for a room of the registry whose entryText is not the
\* last element of calledEntries, or that arrives while calledEntries is
\* empty, changes nothing (markedCurrent, the pending timer and
\* calledEntries included) and emits nothing.
C28_StaleMarkDropped ==
    [][\A c \in Conns, code \in Codes, e \in AllEntries :
          (/\ code \in DOMAIN rooms
           /\ LET called == rooms[code].calledEntries IN
              Len(called) = 0 \/ e # called[Len(called)]
           /\ cell_marked(c, code, e))
          => /\ rooms' = rooms
             /\ timers' = timers
             /\ out' = {}]_vars

\* C28 witness: two entries are called, the first one is stale; a player
\* holds the current one, nobody has marked it and no timer is pending, so
\* a mark taken for the current call would schedule one; the last event
\* was answered with nothing.
C28_Witness ==
    \E code \in DOMAIN rooms :
        LET room == rooms[code] IN
        /\ room.settings # "null"
        /\ Len(room.calledEntries) = 2
        /\ playersWithEntry(room, room.calledEntries[2]) # {}
        /\ room.markedCurrent = {}
        /\ ~room.autoAdvanceTimer
        /\ timers = <<>>
        /\ out = {}

\* the connected players of the room whose dealt board contains e
holders(room, e) ==
    {p \in playerIds(room) :
        /\ status[p] = "conn"
        /\ p \in DOMAIN room.playerCards
        /\ \E i \in 1..Len(room.playerCards[p]) : room.playerCards[p][i] = e}

pendingCalls(ts, code) == Cardinality({i \in 1..Len(ts) : isLiveCall(ts[i], code)})

\* C29: a cell_marked from c for the current call of a room adds c to
\* markedCurrent, and afterwards a caller timer is pending exactly if one
\* was pending before or every connected player whose board contains the
\* current call is in markedCurrent; the step schedules nothing while a
\* holder has not marked or while a timer is pending, so that at most one
\* caller timer is pending for the room.
C29_AllMarkedSchedules ==
    [][\A c \in Conns, code \in Codes, e \in AllEntries :
          (/\ code \in DOMAIN rooms
           /\ rooms[code].settings # "null"
           /\ Len(rooms[code].calledEntries) > 0
           /\ e = rooms[code].calledEntries[Len(rooms[code].calledEntries)]
           /\ cell_marked(c, code, e))
          => /\ code \in DOMAIN rooms'
             /\ LET old == rooms[code]
                    new == rooms'[code]
                    allMarked == holders(old, e) \subseteq new.markedCurrent
                IN  /\ new.markedCurrent = old.markedCurrent \cup {c}
                    /\ new.autoAdvanceTimer <=> (old.autoAdvanceTimer \/ allMarked)
                    /\ pendingCalls(timers, code) = (IF old.autoAdvanceTimer THEN 1 ELSE 0)
                    /\ pendingCalls(timers', code) = (IF new.autoAdvanceTimer THEN 1 ELSE 0)
                    /\ (old.autoAdvanceTimer \/ ~allMarked) => timers' = timers
                    /\ new.calledEntries = old.calledEntries
                    /\ out' = {}]_vars

\* C29 witness: both players of a room hold the current call, both have
\* marked it, and the one caller timer their marks led to is pending.
C29_Witness ==
    \E code \in DOMAIN rooms :
        LET room == rooms[code] IN
        /\ Len(room.calledEntries) > 0
        /\ Cardinality(holders(room, room.calledEntries[Len(room.calledEntries)])) = 2
        /\ room.markedCurrent = playerIds(room)
        /\ room.autoAdvanceTimer
        /\ timers = <<callTimer("cm", code, <<>>)>>

\* C30: a next_call from the host of a room that has settings, when some
\* entry of the pool is not yet called, appends exactly one such entry to
\* calledEntries, empties markedCurrent, cancels the caller timer that was
\* pending, and sends the room entry_called with that entry and with
\* remaining = the number of pool entries not in calledEntries after the
\* draw; when every entry is called it changes nothing and emits nothing.
C30_HostDraw ==
    [][\A c \in Conns, code \in Codes :
          (/\ code \in DOMAIN rooms
           /\ rooms[code].settings # "null"
           /\ rooms[code].hostId = c
           /\ next_call(c, code))
          => IF Len(remainingOf(rooms[code])) = 0
             THEN rooms' = rooms /\ timers' = timers /\ out' = {}
             ELSE /\ code \in DOMAIN rooms'
                  /\ LET old == rooms[code]
                         new == rooms'[code]
                     IN  \E e \in elements(EntryListOf[old.settings]) :
                            /\ ~includes(old.calledEntries, e)
                            /\ new.calledEntries = Append(old.calledEntries, e)
                            /\ new.markedCurrent = {}
                            /\ \A i \in 1..Len(timers) :
                                  isLiveCall(timers[i], code) =>
                                     pendingCalls(timers', code) =
                                        (IF new.autoAdvanceTimer THEN 1 ELSE 0)
                            /\ \A m \in inRoom(code) :
                                  \E msg \in out' :
                                     /\ msg.ev = "entry_called"
                                     /\ msg.to = m
                                     /\ msg.data.entry = e
                                     /\ msg.data.calledEntries = new.calledEntries
                                     /\ msg.data.remaining = Len(remainingOf(new))]_vars

\* C31: a reset_calls from the host of a room leaves the room with empty
\* calledEntries and empty markedCurrent and with scores, currentRound,
\* gameStarted, settings, players and dealt boards as they were.
C31_ResetClearsCalls ==
    [][\A c \in Conns, code \in Codes :
          (/\ code \in DOMAIN rooms
           /\ rooms[code].hostId = c
           /\ reset_calls(c, code))
          => /\ code \in DOMAIN rooms'
             /\ rooms'[code].calledEntries = <<>>
             /\ rooms'[code].markedCurrent = {}
             /\ rooms'[code].scores = rooms[code].scores
             /\ rooms'[code].currentRound = rooms[code].currentRound
             /\ rooms'[code].gameStarted = rooms[code].gameStarted
             /\ rooms'[code].settings = rooms[code].settings
             /\ rooms'[code].players = rooms[code].players
             /\ rooms'[code].playerCards = rooms[code].playerCards]_vars

\* C32: a next_round from the host of a room with settings, received while
\* currentRound < totalRounds, increments currentRound by exactly 1, clears
\* calledEntries and deals again (every listed player is sent a
\* shuffled_card carrying the board stored for it, and new_round is
\* broadcast); received while currentRound >= totalRounds it changes nothing
\* and broadcasts nothing.
C32_HostNextRound ==
    [][\A c \in Conns, code \in Codes :
          (/\ code \in DOMAIN rooms
           /\ rooms[code].settings # "null"
           /\ rooms[code].hostId = c
           /\ next_round(c, code))
          => IF rooms[code].currentRound < totalRoundsOr1(rooms[code].settings)
             THEN /\ code \in DOMAIN rooms'
                  /\ rooms'[code].currentRound = rooms[code].currentRound + 1
                  /\ rooms'[code].calledEntries = <<>>
                  /\ \A i \in 1..Len(rooms[code].players) :
                        LET p == rooms[code].players[i] IN
                        /\ p \in DOMAIN rooms'[code].playerCards
                        /\ Msg("shuffled_card", p, rooms'[code].playerCards[p]) \in out'
                  /\ \E m \in out' : m.ev = "new_round"
             ELSE /\ rooms' = rooms
                  /\ out' = {}]_vars

\* C33: once gameStarted is true in a room it stays true for as long as that
\* room is in the registry: no event and no timer callback sets it back to
\* false. A create_room that draws the same code puts a new room under the
\* code and removes the old one, so such a step is outside the claim.
C33_GameStartedStable ==
    [][\A code \in Codes :
          (/\ code \in DOMAIN rooms
           /\ rooms[code].gameStarted
           /\ code \in DOMAIN rooms'
           /\ ~ \E c \in Conns : create_room(c, code))
          => rooms'[code].gameStarted]_vars

\* a room that is still started in round 2 after a player has left it and
\* a delayed advance has just broadcast game_over
C33_Witness ==
    \E code \in DOMAIN rooms :
        /\ rooms[code].gameStarted
        /\ rooms[code].currentRound = 2
        /\ Len(rooms[code].players) < Cardinality(rooms[code].joined)
        /\ \E m \in out : m.ev = "game_over"

\* C34: in every room of the registry currentRound >= 1 exactly when
\* gameStarted is true, and currentRound >= 1 only with settings present.
C34_RoundIffStarted ==
    \A code \in DOMAIN rooms :
        /\ (rooms[code].currentRound >= 1) <=> rooms[code].gameStarted
        /\ (rooms[code].currentRound >= 1) => (rooms[code].settings # "null")

\* C35: when the parsed entry list has fewer than size*size entries,
\* dealCards does nothing: a round start (start_game, or a next_round that
\* passes its guards) on such a room emits no shuffled_card, leaves every
\* stored board as it was and does not reset markedCurrent.
C35_ShortPoolNoDeal ==
    [][\A c \in Conns, code \in Codes :
          (/\ code \in DOMAIN rooms
           /\ rooms[code].settings # "null"
           /\ Len(EntryListOf[rooms[code].settings]) < NeededOf[rooms[code].settings]
           /\ \/ start_game(c, code)
              \/ /\ rooms[code].hostId = c
                 /\ rooms[code].currentRound < totalRoundsOr1(rooms[code].settings)
                 /\ next_round(c, code))
          => /\ code \in DOMAIN rooms'
             /\ rooms'[code].playerCards = rooms[code].playerCards
             /\ rooms'[code].markedCurrent = rooms[code].markedCurrent
             /\ ~ \E m \in out' : m.ev = "shuffled_card"]_vars

\* a round has just been started on a room whose pool is too small while
\* the room held boards from an earlier deal and an acknowledgment
C35_Witness ==
    \E code \in DOMAIN rooms :
        /\ rooms[code].settings # "null"
        /\ Len(EntryListOf[rooms[code].settings]) < NeededOf[rooms[code].settings]
        /\ rooms[code].markedCurrent # {}
        /\ \E p \in DOMAIN rooms[code].playerCards : rooms[code].playerCards[p] # <<>>
        /\ \E m \in out : m.ev = "game_started"
        /\ ~ \E m \in out : m.ev = "shuffled_card"

\* C36: no caller timer left over from before a round start or a reset_calls
\* draws afterwards: a room whose calledEntries is empty gets its next
\* called entry only in a step that handles a next_call request for it.
C36_NoStaleDraw ==
    [][\A code \in Codes :
          (/\ code \in DOMAIN rooms
           /\ code \in DOMAIN rooms'
           /\ rooms[code].calledEntries = <<>>
           /\ rooms'[code].calledEntries # <<>>)
          => \E c \in Conns : next_call(c, code)]_vars

\* C37: two declare_win events received in the same round before the first
\* delayed callback fires advance the room once: the callback of a
\* declare_win whose round an earlier callback has already advanced changes
\* no room and broadcasts nothing (no second new_round, no game_over, no
\* second deal).
C37_OneAdvancePerRound ==
    [][(/\ declare_win_timeout
        /\ Head(timers).roomId \in DOMAIN rooms
        /\ Head(timers).declaredIn < rooms[Head(timers).roomId].currentRound)
       => /\ rooms' = rooms
          /\ out' = {}]_vars

\* C38: the caller does not stall on a departure. When a room is waiting
\* for acknowledgments of its current call (some connected holder has not
\* marked it, no caller timer pending) and the disconnect of a player leaves
\* every remaining holder marked, the auto-advance timer is scheduled (the
\* formula looks at the departure of a player other than the host). With
\* no timer of the room pending only a client event could change the room
\* afterwards, so "eventually, without a further client event" means in the
\* disconnect step itself.
C38_NoStallOnDeparture ==
    [][\A c \in Conns, code \in Codes :
          (/\ code \in DOMAIN rooms
           /\ code \in DOMAIN rooms'
           /\ code \in sockRooms[c]
           /\ rooms[code].hostId # c
           /\ disconnecting(c)
           /\ rooms[code].settings # "null"
           /\ Len(rooms[code].calledEntries) > 0
           /\ ~rooms[code].autoAdvanceTimer
           /\ pendingCalls(timers, code) = 0
           /\ LET e == rooms[code].calledEntries[Len(rooms[code].calledEntries)] IN
              /\ ~(holders(rooms[code], e) \subseteq rooms[code].markedCurrent)
              /\ holders(rooms'[code], e) \subseteq rooms'[code].markedCurrent)
          => /\ rooms'[code].autoAdvanceTimer
             /\ pendingCalls(timers', code) > 0]_vars

\* C39: currentRound never decreases during the lifetime of a room: every
\* event and every timer callback leaves it equal to or greater than it
\* was, a start_game received in round 2 or later included. A create_room
\* that draws the same code starts the lifetime of a new room.
C39_RoundNeverDecreases ==
    [][\A code \in Codes :
          (/\ code \in DOMAIN rooms
           /\ code \in DOMAIN rooms'
           /\ ~ \E c \in Conns : create_room(c, code))
          => rooms'[code].currentRound >= rooms[code].currentRound]_vars

====
